---- MODULE Spec2Model ----
(***************************************************************************)
(* A model of the OSQP main API (src/src/osqp.c): osqp_setup, osqp_solve,  *)
(* osqp_update_lin_cost, osqp_update_lower_bound, osqp_update_upper_bound  *)
(* and osqp_cleanup, acting on one workspace.                              *)
(*                                                                         *)
(* The problems are one-variable QPs (n = 1) with m constraint rows, so P  *)
(* is its single entry, A is the column of the rows' coefficients, and the *)
(* augmented iterates x, z have length n + m.  Numbers are integers.  The  *)
(* helpers that osqp.c calls and that live in other files of the           *)
(* repository (aux, util, lin_sys, polish, scaling) are modelled from the  *)
(* specification's section 4.  The direct linear solver is abstract there: *)
(* the primal entry of the KKT solution, a quotient, is drawn from         *)
(* SolveVals, and the constraint entries follow exactly from the second    *)
(* block row of K.                                                         *)
(***************************************************************************)
EXTENDS Integers, Sequences, FiniteSets, TLC

VARIABLES
    work,       \* the Work * the caller holds: NULL or the workspace record
    heap,       \* every buffer osqp.c allocates or frees: none, live, freed, bad
    settings,   \* the free symbol `settings` read by the update functions
    pc,         \* where the program is: start, idle, loop, post, done, null, crashed
    iter,       \* osqp_solve's loop variable
    op,         \* the API call made last, with its argument
    ret,        \* what the last completed call returned
    setup_err,  \* which setup error happened in osqp_setup: none, data, settings, alloc, kkt
    calls,      \* API calls made after setup
    passed,     \* the residual check's answers, one per iteration of this solve call
    steps,      \* the steps the last ADMM iteration ran, in order
    polished,   \* whether polish ran in this solve call
    left        \* the iterates and status as setup or the previous solve left them

vars == <<work, heap, settings, pc, iter, op, ret, setup_err, calls, passed,
          steps, polished, left>>

----------------------------------------------------------------------------
(* Bounds of the model *)

MaxM == 2
MaxIter == 2
MaxCalls == 3
MaxScale == 2

QVals == {-1, 1}
BoundVals == {-1, 1}
SolveVals == {0, 1}

----------------------------------------------------------------------------
(* Constants and vector helpers *)

OSQP_NULL == [null |-> TRUE]
UNINIT == "UNINIT"
OSQP_SOLVED == "SOLVED"
OSQP_MAX_ITER_REACHED == "MAX_ITER_REACHED"
OSQP_UNSOLVED == "UNSOLVED"

Zeros(k) == [i \in 1..k |-> 0]

\* c_malloc'ed and not yet written
Uninit(k) == [i \in 1..k |-> UNINIT]

Abs(a) == IF a < 0 THEN -a ELSE a

c_min(a, b) == IF a < b THEN a ELSE b

c_max(a, b) == IF a > b THEN a ELSE b

\* prea_vec_copy(a, b, n): the first n entries of a, copied over b
prea_vec_copy(a, k) == [i \in 1..k |-> a[i]]

\* vec_copy(a, n): a fresh copy of the first n entries of a
vec_copy(a, k) == [i \in 1..k |-> a[i]]

\* vec_ew_prod(a, b, n): b[i] <- a[i] * b[i]
vec_ew_prod(a, b, k) == [i \in 1..k |-> a[i] * b[i]]

Vectors(S, k) == [1..k -> S]

RECURSIVE SumTo(_, _)
SumTo(f, k) == IF k = 0 THEN 0 ELSE f[k] + SumTo(f, k - 1)

----------------------------------------------------------------------------
(* Inputs of osqp_setup *)

ProblemData(n, m, l, u) ==
    [n |-> n, m |-> m, P |-> [i \in 1..n |-> 1], q |-> [i \in 1..n |-> -1],
     A |-> [i \in 1..m |-> 1], lA |-> [i \in 1..m |-> l], uA |-> [i \in 1..m |-> u]]

DataSet ==
    {ProblemData(1, m, -1, 1) : m \in 0..MaxM}
        \cup {ProblemData(1, 1, 1, -1), ProblemData(0, 0, -1, 1)}

SettingsSet ==
    [rho : {1}, sigma : {1}, alpha : {1}, max_iter : 0..MaxIter,
     eps_abs : {0}, eps_rel : {0}, scaling : {0, 1}, polishing : {0, 1},
     warm_start : {0, 1}]

\* validate_data: nonzero when the data are invalid
validate_data(data) ==
    ~ (/\ data.n > 0
       /\ data.m >= 0
       /\ Len(data.P) = data.n /\ Len(data.q) = data.n
       /\ Len(data.A) = data.m /\ Len(data.lA) = data.m /\ Len(data.uA) = data.m
       /\ \A i \in 1..data.m : data.lA[i] <= data.uA[i])

\* validate_settings: nonzero when the settings are invalid
validate_settings(s) ==
    ~ (/\ s.rho > 0 /\ s.sigma > 0
       /\ 0 < s.alpha /\ s.alpha < 2
       /\ s.max_iter >= 1
       /\ s.eps_abs >= 0 /\ s.eps_rel >= 0)

----------------------------------------------------------------------------
(* The heap *)

DataBuffers == {"data", "P", "q", "A", "lA", "uA"}
IterateBuffers == {"x", "z", "u", "z_prev", "dua_res_ws_n", "dua_res_ws_m"}
ScalingBuffers == {"scaling", "D", "Dinv", "E", "Einv"}
PolishBuffers == {"pol", "ind_lAct", "ind_uAct", "A2Ared", "pol_x", "pol_Ax"}
SolutionBuffers == {"solution", "solution_x", "solution_lambda"}

Buffers ==
    {"work", "settings", "priv", "info"} \cup DataBuffers \cup IterateBuffers
        \cup ScalingBuffers \cup PolishBuffers \cup SolutionBuffers

\* c_malloc / c_calloc of each buffer in B
Alloc(h, B) == [b \in Buffers |-> IF b \in B THEN "live" ELSE h[b]]

\* c_free(b): a live buffer becomes freed; any other free is a bad free
c_free(h, b) == [h EXCEPT ![b] = IF @ = "live" THEN "freed" ELSE "bad"]

RECURSIVE FreeAll(_, _)
FreeAll(h, bs) == IF bs = <<>> THEN h ELSE FreeAll(c_free(h, Head(bs)), Tail(bs))

\* What a call leaves in the workspace for the next solve to start from
Leaves(w) == [x |-> w.x, z |-> w.z, u |-> w.u, status_val |-> w.info.status_val]

----------------------------------------------------------------------------
(* osqp_setup *)

\* Mutant: the override of line 84 left out
SetupPolishingKept(m, s) == s.polishing

\* "If no constraints->disable polishing"
SetupPolishing(m, s) == IF m = 0 THEN 0 ELSE s.polishing

\* copy_settings(settings), then the polishing override
copy_settings(m, s) == [s EXCEPT !.polishing = SetupPolishing(m, s)]

\* scale_data(work): the diagonal scalings D (n entries) and E (m entries), all
\* strictly positive, applied to P, q, A, lA, uA in place: P <- D P D, q <- D q,
\* A <- E A D, lA <- E lA, uA <- E uA.  f is the factor the equilibration finds.
scale_data(w, f) ==
    LET n == w.data.n
        m == w.data.m
        D == [i \in 1..n |-> f]
        E == [i \in 1..m |-> f]
    IN  [w EXCEPT !.scaling = [D |-> D, E |-> E],
                  !.data.P = [i \in 1..n |-> D[i] * w.data.P[i] * D[i]],
                  !.data.q = vec_ew_prod(D, w.data.q, n),
                  !.data.A = [i \in 1..m |-> E[i] * w.data.A[i] * D[1]],
                  !.data.lA = vec_ew_prod(E, w.data.lA, m),
                  !.data.uA = vec_ew_prod(E, w.data.uA, m)]

\* init_priv(P, A, settings, 0): the factorization handle, or NULL when the KKT
\* matrix cannot be factorized
init_priv(P, A, s, kkt_ok) ==
    IF kkt_ok THEN [P |-> P, A |-> A, rho |-> s.rho, sigma |-> s.sigma]
    ELSE OSQP_NULL

\* The workspace osqp_setup builds once both validations passed
NewWork(data, s, f, kkt_ok) ==
    LET n == data.n
        m == data.m
        w0 == [data |-> [n |-> n, m |-> m, P |-> data.P, q |-> vec_copy(data.q, n),
                         A |-> data.A, lA |-> vec_copy(data.lA, m),
                         uA |-> vec_copy(data.uA, m)],
               x |-> Zeros(n + m), z |-> Zeros(n + m), u |-> Zeros(m),
               z_prev |-> Uninit(n + m),
               settings |-> copy_settings(m, s),
               scaling |-> OSQP_NULL,
               priv |-> OSQP_NULL,
               pol |-> [ind_lAct |-> Uninit(m), ind_uAct |-> Uninit(m),
                        A2Ared |-> Uninit(m)],
               solution |-> [x |-> Zeros(n), lambda |-> Zeros(m)],
               info |-> [iter |-> 0, status_val |-> OSQP_UNSOLVED]]
        w1 == IF s.scaling # 0 THEN scale_data(w0, f) ELSE w0
    IN  [w1 EXCEPT !.priv = init_priv(w1.data.P, w1.data.A, w1.settings, kkt_ok)]

\* The buffers osqp_setup allocates after the workspace itself
SetupAllocs(s, kkt_ok) ==
    {"settings", "info"} \cup DataBuffers \cup IterateBuffers \cup PolishBuffers
        \cup SolutionBuffers
        \cup (IF s.scaling # 0 THEN ScalingBuffers ELSE {})
        \cup (IF kkt_ok THEN {"priv"} ELSE {})

osqp_setup(data, s, alloc_ok, kkt_ok, f) ==
    /\ pc = "start"
    /\ op' = [name |-> "osqp_setup", arg |-> <<>>]
    /\ UNCHANGED <<settings, iter, calls, passed, steps, polished>>
    /\ IF validate_data(data)
       THEN /\ setup_err' = "data"
            /\ work' = OSQP_NULL /\ ret' = 0 /\ pc' = "null" /\ heap' = heap
            /\ left' = left
       ELSE IF validate_settings(s)
       THEN /\ setup_err' = "settings"
            /\ work' = OSQP_NULL /\ ret' = 0 /\ pc' = "null" /\ heap' = heap
            /\ left' = left
       ELSE IF ~alloc_ok
       THEN \* work is NULL and is dereferenced from line 59 on: undefined
            \* behaviour.  Either the program faults, or the stores go through
            \* and the call returns the null pointer it was given.
            /\ setup_err' = "alloc"
            /\ work' = OSQP_NULL
            /\ left' = left
            /\ \/ pc' = "crashed" /\ ret' = ret /\ heap' = heap
               \/ pc' = "null" /\ ret' = 0
                  /\ heap' = Alloc(heap, SetupAllocs(s, kkt_ok))
       ELSE /\ setup_err' = IF kkt_ok THEN "none" ELSE "kkt"
            /\ work' = NewWork(data, s, f, kkt_ok)
            /\ left' = Leaves(NewWork(data, s, f, kkt_ok))
            /\ ret' = 1
            /\ pc' = "idle"
            /\ heap' = Alloc(heap, {"work"} \cup SetupAllocs(s, kkt_ok))

----------------------------------------------------------------------------
(* The update functions *)

\* "if (settings->scaling)": the free symbol, not work->settings
ScalingApplies == settings.scaling # 0

\* Mutant: the loop stops one row early
RECURSIVE LowerBoundLoopShort(_, _, _, _)
LowerBoundLoopShort(lA, uA, i, m) ==
    IF i > m - 1 THEN 0
    ELSE IF lA[i] > uA[i] THEN 1
    ELSE LowerBoundLoopShort(lA, uA, i + 1, m)

\* The loop of osqp_update_lower_bound, from row i on
RECURSIVE LowerBoundLoop(_, _, _, _)
LowerBoundLoop(lA, uA, i, m) ==
    IF i > m THEN 0
    ELSE IF lA[i] > uA[i] THEN 1
    ELSE LowerBoundLoop(lA, uA, i + 1, m)

\* The loop of osqp_update_upper_bound, from row i on
RECURSIVE UpperBoundLoop(_, _, _, _)
UpperBoundLoop(lA, uA, i, m) ==
    IF i > m THEN 0
    ELSE IF uA[i] < lA[i] THEN 1
    ELSE UpperBoundLoop(lA, uA, i + 1, m)

\* "prea_vec_copy(q_new, work->data->q, work->data->n)"
ReplaceLinCost(w, q_new) == [w EXCEPT !.data.q = prea_vec_copy(q_new, w.data.n)]

\* Mutant: the copy overwrites uA instead of lA
ReplaceLowerBoundIntoUpper(w, lA_new) ==
    [w EXCEPT !.data.uA = prea_vec_copy(lA_new, w.data.m)]

\* "prea_vec_copy(lA_new, work->data->lA, work->data->m)"
ReplaceLowerBound(w, lA_new) == [w EXCEPT !.data.lA = prea_vec_copy(lA_new, w.data.m)]

\* "prea_vec_copy(uA_new, work->data->uA, work->data->m)"
ReplaceUpperBound(w, uA_new) == [w EXCEPT !.data.uA = prea_vec_copy(uA_new, w.data.m)]

\* What a call may multiply by when it reads work->scaling through a null
\* pointer and does not fault: the same stray value for every entry
GarbageScales(k) == {[i \in 1..k |-> g] : g \in 0..MaxScale}

UpdateFrame == UNCHANGED <<heap, settings, iter, setup_err, passed, steps, polished, left>>

osqp_update_lin_cost(q_new) ==
    /\ pc = "idle" /\ calls < MaxCalls
    /\ calls' = calls + 1
    /\ op' = [name |-> "osqp_update_lin_cost", arg |-> q_new]
    /\ UpdateFrame
    /\ LET n == work.data.n
           w1 == ReplaceLinCost(work, q_new)
       IN  IF ~ScalingApplies
           THEN work' = w1 /\ ret' = 0 /\ pc' = "idle"
           ELSE IF work.scaling # OSQP_NULL
           THEN /\ work' = [w1 EXCEPT !.data.q = vec_ew_prod(work.scaling.D, w1.data.q, n)]
                /\ ret' = 0 /\ pc' = "idle"
           ELSE \/ work' = w1 /\ ret' = ret /\ pc' = "crashed"
                \/ \E g \in GarbageScales(n) :
                      /\ work' = [w1 EXCEPT !.data.q = vec_ew_prod(g, w1.data.q, n)]
                      /\ ret' = 0 /\ pc' = "idle"

osqp_update_lower_bound(lA_new) ==
    /\ pc = "idle" /\ calls < MaxCalls
    /\ calls' = calls + 1
    /\ op' = [name |-> "osqp_update_lower_bound", arg |-> lA_new]
    /\ UpdateFrame
    /\ LET m == work.data.m
           w1 == ReplaceLowerBound(work, lA_new)
           Return(w) ==
               /\ work' = w
               /\ ret' = LowerBoundLoop(w.data.lA, w.data.uA, 1, m)
               /\ pc' = "idle"
       IN  IF ~ScalingApplies
           THEN Return(w1)
           ELSE IF work.scaling # OSQP_NULL
           THEN Return([w1 EXCEPT !.data.lA = vec_ew_prod(work.scaling.E, w1.data.lA, m)])
           ELSE \/ work' = w1 /\ ret' = ret /\ pc' = "crashed"
                \/ \E g \in GarbageScales(m) :
                      Return([w1 EXCEPT !.data.lA = vec_ew_prod(g, w1.data.lA, m)])

osqp_update_upper_bound(uA_new) ==
    /\ pc = "idle" /\ calls < MaxCalls
    /\ calls' = calls + 1
    /\ op' = [name |-> "osqp_update_upper_bound", arg |-> uA_new]
    /\ UpdateFrame
    /\ LET m == work.data.m
           w1 == ReplaceUpperBound(work, uA_new)
           Return(w) ==
               /\ work' = w
               /\ ret' = UpperBoundLoop(w.data.lA, w.data.uA, 1, m)
               /\ pc' = "idle"
       IN  IF ~ScalingApplies
           THEN Return(w1)
           ELSE IF work.scaling # OSQP_NULL
           THEN Return([w1 EXCEPT !.data.uA = vec_ew_prod(work.scaling.E, w1.data.uA, m)])
           ELSE \/ work' = w1 /\ ret' = ret /\ pc' = "crashed"
                \/ \E g \in GarbageScales(m) :
                      Return([w1 EXCEPT !.data.uA = vec_ew_prod(g, w1.data.uA, m)])

----------------------------------------------------------------------------
(* osqp_cleanup *)

\* The c_free, csc_spfree and free_priv calls of osqp_cleanup, in order.
\* free_priv does nothing to a null handle.
CleanupFrees(w) ==
    <<"P", "q", "A", "lA", "uA", "data">>
        \o (IF w.settings.scaling # 0
            THEN <<"D", "Dinv", "E", "Einv", "scaling">> ELSE <<>>)
        \o (IF w.priv # OSQP_NULL THEN <<"priv">> ELSE <<>>)
        \o <<"ind_lAct", "ind_uAct", "A2Ared", "pol_x", "pol_Ax", "pol">>
        \o <<"x", "u", "z", "z_prev", "dua_res_ws_n", "dua_res_ws_m">>
        \o <<"settings">>
        \o <<"solution_x", "solution_lambda", "solution">>
        \o <<"info">>
        \o <<"work">>

osqp_cleanup ==
    /\ pc = "idle"
    /\ heap' = FreeAll(heap, CleanupFrees(work))
    /\ work' = OSQP_NULL
    /\ pc' = "done"
    /\ ret' = 0
    /\ op' = [name |-> "osqp_cleanup", arg |-> <<>>]
    /\ UNCHANGED <<settings, iter, setup_err, calls, passed, steps, polished, left>>

----------------------------------------------------------------------------
(* osqp_solve: the helpers *)

\* cold_start(work): x, z, u <- 0
cold_start(w) ==
    [w EXCEPT !.x = Zeros(w.data.n + w.data.m),
              !.z = Zeros(w.data.n + w.data.m),
              !.u = Zeros(w.data.m)]

\* Mutant: the negation dropped
ColdStartsInverted(s) == s.warm_start # 0

\* "if (!work->settings->warm_start)"
ColdStarts(s) == s.warm_start = 0

\* prea_vec_copy(work->z, work->z_prev, n + m)
copy_z_prev(w) == [w EXCEPT !.z_prev = prea_vec_copy(w.z, w.data.n + w.data.m)]

\* compute_rhs(work): the right-hand side, written over work->x:
\* r[0:n] = sigma x[0:n] - q, r[n:n+m] = z[n:n+m] - u / rho
compute_rhs(w) ==
    LET n == w.data.n
        s == w.settings
    IN  [w EXCEPT !.x = [i \in 1..(n + w.data.m) |->
                            IF i <= n THEN s.sigma * w.x[i] - w.data.q[i]
                            ELSE w.z[i] - (w.u[i - n] \div s.rho)]]

\* solve_lin_sys(settings, priv, work->x): work->x <- the solution of K xt = r.
\* The rows n+i of K read A[i] xt[0] - xt[n+i] / rho = r[n+i]; xt[0] is x0.
solve_lin_sys(w, x0) ==
    LET n == w.data.n
    IN  [w EXCEPT !.x = [i \in 1..(n + w.data.m) |->
                            IF i <= n THEN x0
                            ELSE w.priv.rho * (w.priv.A[i - n] * x0 - w.x[i])]]

\* update_x(work): x[0:n] <- alpha xt[0:n] + (1 - alpha) z_prev[0:n],
\* x[n:n+m] <- alpha xt[n:n+m] + (1 - alpha) z_prev[n:n+m] + u / rho
update_x(w) ==
    LET n == w.data.n
        s == w.settings
    IN  [w EXCEPT !.x = [i \in 1..(n + w.data.m) |->
                            IF i <= n
                            THEN s.alpha * w.x[i] + (1 - s.alpha) * w.z_prev[i]
                            ELSE s.alpha * w.x[i] + (1 - s.alpha) * w.z_prev[i]
                                     + (w.u[i - n] \div s.rho)]]

\* project_x(work): z[0:n] <- x[0:n], z[n:n+m] <- the projection of
\* x[n:n+m] - u / rho onto [lA, uA]
project_x(w) ==
    LET n == w.data.n
        s == w.settings
    IN  [w EXCEPT !.z = [i \in 1..(n + w.data.m) |->
                            IF i <= n THEN w.x[i]
                            ELSE c_min(c_max(w.x[i] - (w.u[i - n] \div s.rho),
                                             w.data.lA[i - n]),
                                       w.data.uA[i - n])]]

\* update_u(work): u <- u + rho (x[n:n+m] - z[n:n+m])
update_u(w) ==
    LET n == w.data.n
    IN  [w EXCEPT !.u = [i \in 1..w.data.m |->
                            w.u[i] + w.settings.rho * (w.x[n + i] - w.z[n + i])]]

\* update_info(work, iter, 0)
update_info(w, it) == [w EXCEPT !.info.iter = it]

\* The termination test, on the unscaled problem: |r_p| <= eps_p and
\* |r_d| <= eps_d, with r_p = Einv (A x - z[n:]) and
\* r_d = Dinv (P x + q + A' y), y = rho u, of the scaled data.  Each inequality
\* is multiplied through by the positive E[i] or D[1].
residuals_pass(w) ==
    LET n == w.data.n
        m == w.data.m
        s == w.settings
        D == IF w.scaling # OSQP_NULL THEN w.scaling.D ELSE [i \in 1..n |-> 1]
        E == IF w.scaling # OSQP_NULL THEN w.scaling.E ELSE [i \in 1..m |-> 1]
        Ax == [i \in 1..m |-> w.data.A[i] * w.x[1]]
        Aty == SumTo([i \in 1..m |-> w.data.A[i] * s.rho * w.u[i]], m)
        eps == s.eps_abs
    IN  /\ \A i \in 1..m : Abs(Ax[i] - w.z[n + i]) <= eps * E[i]
        /\ Abs(w.data.P[1] * w.x[1] + w.data.q[1] + Aty) <= eps * D[1]

\* residuals_check(work): the test, and the status it decides
residuals_check(w) ==
    [w EXCEPT !.info.status_val =
        IF residuals_pass(w) THEN OSQP_SOLVED
        ELSE IF w.info.iter + 1 >= w.settings.max_iter THEN OSQP_MAX_ITER_REACHED
        ELSE @]

\* polish(work): the active sets of the multipliers y = rho u
polish(w) ==
    LET m == w.data.m
        y == [i \in 1..m |-> w.settings.rho * w.u[i]]
        act == [i \in 1..m |-> y[i] # 0]
    IN  [w EXCEPT !.pol.ind_lAct = [i \in 1..m |-> IF y[i] < 0 THEN 1 ELSE 0],
                  !.pol.ind_uAct = [i \in 1..m |-> IF y[i] > 0 THEN 1 ELSE 0],
                  !.pol.A2Ared = [i \in 1..m |->
                        IF act[i] THEN Cardinality({j \in 1..i : act[j]}) - 1
                        ELSE -1]]

\* store_solution(work): the unscaled x and lambda
store_solution(w) ==
    LET n == w.data.n
        m == w.data.m
        D == IF w.scaling # OSQP_NULL THEN w.scaling.D ELSE [i \in 1..n |-> 1]
        E == IF w.scaling # OSQP_NULL THEN w.scaling.E ELSE [i \in 1..m |-> 1]
    IN  [w EXCEPT !.solution = [x |-> [i \in 1..n |-> D[i] * w.x[i]],
                                lambda |-> [i \in 1..m |-> E[i] * w.settings.rho * w.u[i]]]]

----------------------------------------------------------------------------
(* osqp_solve *)

\* A step of the loop body: the workspace after it, and its name logged
Step(w, name, s) == [w |-> w, log |-> Append(s.log, name)]

\* Mutant: the loop body without its call of project_x
ADMMIterationNoProject(w, it, x0) ==
    LET s0 == [w |-> w, log |-> <<>>]
        s1 == Step(copy_z_prev(s0.w), "z_prev", s0)
        s2 == Step(compute_rhs(s1.w), "compute_rhs", s1)
        s3 == Step(solve_lin_sys(s2.w, x0), "solve_lin_sys", s2)
        s4 == Step(update_x(s3.w), "update_x", s3)
        s6 == Step(update_u(s4.w), "update_u", s4)
        s7 == Step(update_info(s6.w, it), "update_info", s6)
        s8 == Step(residuals_check(s7.w), "residuals_check", s7)
    IN  [w |-> s8.w, log |-> s8.log, pass |-> residuals_pass(s7.w)]

\* Mutant: the loop body with update_u called before project_x
ADMMIterationUBeforeZ(w, it, x0) ==
    LET s0 == [w |-> w, log |-> <<>>]
        s1 == Step(copy_z_prev(s0.w), "z_prev", s0)
        s2 == Step(compute_rhs(s1.w), "compute_rhs", s1)
        s3 == Step(solve_lin_sys(s2.w, x0), "solve_lin_sys", s2)
        s4 == Step(update_x(s3.w), "update_x", s3)
        s5 == Step(update_u(s4.w), "update_u", s4)
        s6 == Step(project_x(s5.w), "project_x", s5)
        s7 == Step(update_info(s6.w, it), "update_info", s6)
        s8 == Step(residuals_check(s7.w), "residuals_check", s7)
    IN  [w |-> s8.w, log |-> s8.log, pass |-> residuals_pass(s7.w)]

\* The body of the main loop, lines 167 to 193
ADMMIteration(w, it, x0) ==
    LET s0 == [w |-> w, log |-> <<>>]
        s1 == Step(copy_z_prev(s0.w), "z_prev", s0)
        s2 == Step(compute_rhs(s1.w), "compute_rhs", s1)
        s3 == Step(solve_lin_sys(s2.w, x0), "solve_lin_sys", s2)
        s4 == Step(update_x(s3.w), "update_x", s3)
        s5 == Step(project_x(s4.w), "project_x", s4)
        s6 == Step(update_u(s5.w), "update_u", s5)
        s7 == Step(update_info(s6.w, it), "update_info", s6)
        s8 == Step(residuals_check(s7.w), "residuals_check", s7)
    IN  [w |-> s8.w, log |-> s8.log, pass |-> residuals_pass(s7.w)]

\* Mutant: the loop test off by one
LoopContinuesInclusive(it, max_iter) == it <= max_iter

\* "iter < work->settings->max_iter"
LoopContinues(it, max_iter) == it < max_iter

\* "if (work->settings->polishing && work->info->status_val == OSQP_SOLVED)"
PolishRuns(w) == w.settings.polishing # 0 /\ w.info.status_val = OSQP_SOLVED

\* Entry of osqp_solve up to the loop head
SolveEnter ==
    /\ pc = "idle" /\ calls < MaxCalls
    /\ work.priv # OSQP_NULL
    /\ calls' = calls + 1
    /\ op' = [name |-> "osqp_solve", arg |-> <<>>]
    /\ work' = IF ColdStarts(work.settings) THEN cold_start(work) ELSE work
    /\ iter' = 0
    /\ passed' = <<>>
    /\ steps' = <<>>
    /\ polished' = FALSE
    /\ pc' = IF LoopContinues(0, work.settings.max_iter) THEN "loop" ELSE "post"
    /\ UNCHANGED <<heap, settings, ret, setup_err, left>>

\* One pass through the loop body, and the loop's next test
Iterate(x0) ==
    /\ pc = "loop"
    /\ LET r == ADMMIteration(work, iter, x0)
       IN  /\ work' = r.w
           /\ steps' = r.log
           /\ passed' = Append(passed, r.pass)
           /\ IF r.pass
              THEN iter' = iter /\ pc' = "post"
              ELSE /\ iter' = iter + 1
                   /\ pc' = IF LoopContinues(iter + 1, work.settings.max_iter)
                            THEN "loop" ELSE "post"
    /\ UNCHANGED <<heap, settings, op, ret, setup_err, calls, polished, left>>

\* After the loop: polish, store_solution, return
SolveExit ==
    /\ pc = "post"
    /\ LET w1 == IF PolishRuns(work) THEN polish(work) ELSE work
       IN  /\ work' = store_solution(w1)
           /\ polished' = PolishRuns(work)
           /\ left' = Leaves(w1)
    /\ ret' = 0
    /\ pc' = "idle"
    /\ UNCHANGED <<heap, settings, iter, op, setup_err, calls, passed, steps>>

----------------------------------------------------------------------------
(* The program *)

Init ==
    /\ work = OSQP_NULL
    /\ heap = [b \in Buffers |-> "none"]
    /\ settings \in [scaling : {0, 1}]
    /\ pc = "start"
    /\ iter = 0
    /\ op = [name |-> "none", arg |-> <<>>]
    /\ ret = 0
    /\ setup_err = "none"
    /\ calls = 0
    /\ passed = <<>>
    /\ steps = <<>>
    /\ polished = FALSE
    /\ left = [x |-> <<>>, z |-> <<>>, u |-> <<>>, status_val |-> OSQP_UNSOLVED]

Setup ==
    \E data \in DataSet, s \in SettingsSet, alloc_ok \in BOOLEAN,
       kkt_ok \in BOOLEAN, f \in 1..MaxScale :
        /\ osqp_setup(data, s, alloc_ok, kkt_ok, f)

UpdateLinCost == \E q_new \in Vectors(QVals, 1) : osqp_update_lin_cost(q_new)

UpdateLowerBound ==
    \E m \in 0..MaxM : \E lA_new \in Vectors(BoundVals, m) :
        /\ pc = "idle" /\ m = work.data.m
        /\ osqp_update_lower_bound(lA_new)

UpdateUpperBound ==
    \E m \in 0..MaxM : \E uA_new \in Vectors(BoundVals, m) :
        /\ pc = "idle" /\ m = work.data.m
        /\ osqp_update_upper_bound(uA_new)

Solve == \E x0 \in SolveVals : Iterate(x0)

Next ==
    \/ Setup
    \/ UpdateLinCost
    \/ UpdateLowerBound
    \/ UpdateUpperBound
    \/ SolveEnter
    \/ Solve
    \/ SolveExit
    \/ osqp_cleanup

Spec == Init /\ [][Next]_vars

----------------------------------------------------------------------------
(* Properties *)

InSolve == pc \in {"loop", "post"}

\* A call of the named API function has returned and no other call was made since
Returned(name) == pc = "idle" /\ op.name = name

\* An iteration of the current solve call has completed
IterationDone == InSolve /\ passed # <<>>

\* The solve call has left its loop, or has returned
LoopOver == pc = "post" \/ Returned("osqp_solve")

SomeRowInconsistent(w) == \E i \in 1..w.data.m : w.data.lA[i] > w.data.uA[i]

ZInBounds(w) ==
    \A i \in 1..w.data.m :
        /\ w.data.lA[i] <= w.z[w.data.n + i]
        /\ w.z[w.data.n + i] <= w.data.uA[i]

PassedSome == \E k \in 1..Len(passed) : passed[k]

StepOrder ==
    <<"z_prev", "compute_rhs", "solve_lin_sys", "update_x", "project_x",
      "update_u", "update_info", "residuals_check">>

\* C1: when osqp_update_lower_bound or osqp_update_upper_bound returns, it
\* returns nonzero exactly when some row of the bounds now stored (the new
\* vector replaced and scaled, against the other bound) has lA[i] > uA[i], and
\* zero when lA[i] <= uA[i] for all rows.
C1_BoundUpdateReturn ==
    (Returned("osqp_update_lower_bound") \/ Returned("osqp_update_upper_bound"))
        => /\ ret # 0 <=> SomeRowInconsistent(work)
           /\ ret = 0 <=> \A i \in 1..work.data.m : work.data.lA[i] <= work.data.uA[i]

\* C1 witness: a lower-bound update returned nonzero because of its second row
\* alone
C1_Witness ==
    /\ Returned("osqp_update_lower_bound")
    /\ work.data.m = 2
    /\ ret # 0
    /\ work.data.lA[1] <= work.data.uA[1]
    /\ work.data.lA[2] > work.data.uA[2]

\* C2 as originally stated: after any completed ADMM iteration, in any
\* workspace reached by any sequence of calls, lA <= z[n:] <= uA for the
\* bounds currently stored.
C2_ZFeasibleAlways == IterationDone => ZInBounds(work)

\* C2 amended: after any completed ADMM iteration, lA <= z[n:] <= uA for the
\* bounds currently stored, provided those bounds are consistent (lA[i] <= uA[i]
\* in every row).
C2_ZFeasibleWhenConsistent ==
    (IterationDone /\ ~SomeRowInconsistent(work)) => ZInBounds(work)

\* C2 witness: two iterations completed after an update, with consistent
\* bounds, a tight row, and a point the projection had to move
C2_Witness ==
    /\ IterationDone
    /\ Len(passed) = 2
    /\ calls >= 2
    /\ work.data.m = 2
    /\ ~SomeRowInconsistent(work)
    /\ work.data.lA[1] = work.data.uA[1]
    /\ \E i \in 1..2 : work.z[1 + i] # work.x[1 + i]

\* C3: once a solve call has left its loop, status_val is SOLVED exactly when
\* the residual test passed at some iteration of this call, it is
\* MAX_ITER_REACHED when max_iter iterations of this call ran without the test
\* passing, and it is never UNSOLVED.
C3_StatusAtReturn ==
    LoopOver =>
        /\ work.info.status_val = OSQP_SOLVED <=> PassedSome
        /\ (/\ Len(passed) >= work.settings.max_iter
            /\ \A k \in 1..work.settings.max_iter : ~passed[k])
               => work.info.status_val = OSQP_MAX_ITER_REACHED
        /\ work.info.status_val # OSQP_UNSOLVED

\* C3 witness: a solve ends MAX_ITER_REACHED on a workspace whose previous
\* solve had ended SOLVED
C3_Witness ==
    /\ pc = "post"
    /\ left.status_val = OSQP_SOLVED
    /\ work.info.status_val = OSQP_MAX_ITER_REACHED

\* C4: osqp_setup returns a null workspace on every setup error (invalid data,
\* invalid settings, failed allocation of the workspace, failed KKT
\* factorization) and a non-null workspace only when none occurred.
C4_SetupNullOnError ==
    (pc \in {"idle", "null"} /\ op.name = "osqp_setup")
        => (work = OSQP_NULL <=> setup_err # "none")

\* C5: an update call changes only its own vector, which holds the new values
\* (scaled or not) whatever the call returns; the rest of the workspace (P, A,
\* the other vectors, x, z, u, z_prev, settings, scaling, the KKT handle, the
\* polish scratch, info, solution) and the heap are as before.
C5_UpdateFrame ==
    [][(calls' = calls + 1 /\ op'.name # "osqp_solve") =>
          /\ heap' = heap
          /\ \E g \in 0..MaxScale :
               \/ /\ op'.name = "osqp_update_lin_cost"
                  /\ work' = [work EXCEPT !.data.q =
                                 [i \in 1..work.data.n |-> g * op'.arg[i]]]
               \/ /\ op'.name = "osqp_update_lower_bound"
                  /\ work' = [work EXCEPT !.data.lA =
                                 [i \in 1..work.data.m |-> g * op'.arg[i]]]
               \/ /\ op'.name = "osqp_update_upper_bound"
                  /\ work' = [work EXCEPT !.data.uA =
                                 [i \in 1..work.data.m |-> g * op'.arg[i]]]]_vars

\* C5 witness: after a solve that ended SOLVED, a lower-bound update returned
\* nonzero and its vector is in place
C5_Witness ==
    /\ Returned("osqp_update_lower_bound")
    /\ ret # 0
    /\ work.data.m = 2
    /\ work.data.lA = op.arg
    /\ work.info.status_val = OSQP_SOLVED
    /\ work.solution.x # Zeros(1)

\* C6: what an update stores depends on the workspace alone: the new vector,
\* multiplied by the workspace's D or E exactly when the workspace's own
\* scaling setting is on.
C6_OwnScalingDecides ==
    LET v == op.arg
        byD == IF work.settings.scaling # 0
               THEN vec_ew_prod(work.scaling.D, v, Len(v)) ELSE v
        byE == IF work.settings.scaling # 0
               THEN vec_ew_prod(work.scaling.E, v, Len(v)) ELSE v
    IN  /\ Returned("osqp_update_lin_cost") => work.data.q = byD
        /\ Returned("osqp_update_lower_bound") => work.data.lA = byE
        /\ Returned("osqp_update_upper_bound") => work.data.uA = byE

\* C7: polish runs in a solve call only if the workspace's polishing setting
\* is on and the status after the loop is SOLVED; a workspace with m = 0 has
\* the setting off, and polish never runs on it.
C7_PolishGuarded ==
    pc \in {"idle", "loop", "post"} =>
        /\ polished => (work.settings.polishing # 0
                            /\ work.info.status_val = OSQP_SOLVED)
        /\ work.data.m = 0 => (work.settings.polishing = 0 /\ ~polished)

\* C7 witness: a solve on a workspace with m = 0 returned SOLVED and polish did
\* not run
C7_Witness ==
    /\ Returned("osqp_solve")
    /\ work.data.m = 0
    /\ work.info.status_val = OSQP_SOLVED
    /\ ~polished

\* C8: after a successful setup and any calls, osqp_cleanup leaves every buffer
\* the workspace owned freed exactly once, none live and none freed that was
\* not allocated; and after a setup call in which a setup error occurred,
\* nothing is left allocated.
C8_ReleasedExactlyOnce ==
    /\ pc = "done" => \A b \in Buffers : heap[b] \in {"none", "freed"}
    /\ (pc = "done" /\ setup_err = "none")
           => \A b \in Buffers \ ScalingBuffers : heap[b] = "freed"
    /\ (pc \in {"idle", "null"} /\ op.name = "osqp_setup" /\ setup_err # "none")
           => \A b \in Buffers : heap[b] # "live"

\* C9: a solve call runs k iterations with 1 <= k <= max_iter: in the loop the
\* count of completed iterations is the loop variable, below max_iter, and no
\* check has passed; once the loop is over, the last iteration is the first
\* whose check passed, or else the max_iter-th; and every iteration runs its
\* steps in the order z_prev, RHS, KKT solve, x, z, u, info, check.
C9_IterationCount ==
    /\ pc = "loop" =>
          /\ iter = Len(passed)
          /\ iter < work.settings.max_iter
          /\ ~PassedSome
    /\ LoopOver =>
          /\ 1 <= Len(passed) /\ Len(passed) <= work.settings.max_iter
          /\ \A k \in 1..(Len(passed) - 1) : ~passed[k]
          /\ passed[Len(passed)] \/ Len(passed) = work.settings.max_iter
    /\ IterationDone => steps = StepOrder

\* C9 witness: with max_iter = 2 the loop stopped after its first iteration
C9_Witness ==
    /\ pc = "post"
    /\ work.settings.max_iter = 2
    /\ Len(passed) = 1
    /\ passed[1]

\* C10: at the start of the first iteration of a solve call, x, z, u are zero
\* when warm_start is off, and are what setup or the previous solve left, the
\* update calls made since notwithstanding, when it is on.
C10_StartIterates ==
    (pc = "loop" /\ passed = <<>>) =>
        IF work.settings.warm_start = 0
        THEN /\ work.x = Zeros(work.data.n + work.data.m)
             /\ work.z = Zeros(work.data.n + work.data.m)
             /\ work.u = Zeros(work.data.m)
        ELSE /\ work.x = left.x
             /\ work.z = left.z
             /\ work.u = left.u

\* C10 witness: a cold start over nonzero iterates left by an earlier solve
C10_Witness ==
    /\ pc = "loop" /\ passed = <<>>
    /\ work.settings.warm_start = 0
    /\ work.data.m = 2
    /\ left.x # Zeros(3)
    /\ left.u # Zeros(2)

====
